---- MODULE Spec2Model ----
(***************************************************************************)
(* Model of game-todo-list.cc: a single top-level window with two global   *)
(* hotkeys, a paint handler, a screen capture and a quit key, driven by    *)
(* the message loop of wWinMain.                                           *)
(*                                                                         *)
(* The program counter of wWinMain is `pc`; the invocations of             *)
(* GTLMainWindow::handleMessage that are in progress are the frames of     *)
(* `stack` (the window procedure is re-entered by synchronous sends).      *)
(* Every OS call whose result the code checks is a nondeterministic        *)
(* choice between success and failure.                                     *)
(***************************************************************************)
EXTENDS Integers, Sequences, FiniteSets, TLC

VARIABLES
  envTRACE,        \* the TRACE environment variable: <<>> if unset, <<s>> if set to s
  g_tracingLevel,  \* int g_tracingLevel
  pc,              \* position of wWinMain
  exitCode,        \* <<>> while running, <<n>> once wWinMain returned n
  queue,           \* posted messages of the thread, oldest first
  stack,           \* handleMessage invocations in progress, innermost last
  windowExists,    \* m_hwnd names a live window
  registered,      \* hotkey ids registered for the window
  invalid,         \* the window has a non-empty update region
  content,         \* what the window's client area shows
  held,            \* graphics handles currently held, in order of acquisition
  cs,              \* locals and history of the captureScreen call in progress
  psOpen,          \* a BeginPaint has not been matched by EndPaint
  fontSel          \* the stock font is selected into the paint DC

vars == <<envTRACE, g_tracingLevel, pc, exitCode, queue, stack, windowExists,
          registered, invalid, content, held, cs, psOpen, fontSel>>

winVars == <<queue, stack, windowExists, registered, invalid, content,
             held, cs, psOpen, fontSel>>

-----------------------------------------------------------------------------
(* Bounds *)

MaxLen == 3        \* longest value of TRACE that is enumerated
MaxQueue == 2      \* the environment posts only while the queue is shorter
MaxDim == 1        \* largest client width and height

-----------------------------------------------------------------------------
(* Program constants *)

DefaultTracingLevel == 1
HOTKEY_ID_F5 == 1
HOTKEY_ID_UP == 2
KEY_Q == 81

\* Hotkey identifier the system defines itself (IDHOT_SNAPWINDOW); no
\* RegisterHotKey call of the program is behind it.
OtherHotKeyIds == {0 - 1}

\* Virtual key codes the user may press: 'Q' and 'A'.
KeyCodes == {KEY_Q, 65}

-----------------------------------------------------------------------------
(* std::atoi *)

Digits == {"0", "1", "2", "3", "4", "5", "6", "7", "8", "9"}

DigitVal(c) ==
  CASE c = "0" -> 0 [] c = "1" -> 1 [] c = "2" -> 2 [] c = "3" -> 3
    [] c = "4" -> 4 [] c = "5" -> 5 [] c = "6" -> 6 [] c = "7" -> 7
    [] c = "8" -> 8 [] c = "9" -> 9

\* Characters the enumerated values of TRACE are made of; a variable that
\* is set has at least one character.
Alphabet == {"0", "1", "7", "-", "+", " ", "a"}

StringsUpTo(n) == UNION {[1..k -> Alphabet] : k \in 1..n}

RECURSIVE SkipSpace(_)
SkipSpace(s) ==
  IF s # <<>> /\ Head(s) = " " THEN SkipSpace(Tail(s)) ELSE s

RECURSIVE ParseDigits(_, _)
ParseDigits(s, acc) ==
  IF s # <<>> /\ Head(s) \in Digits
  THEN ParseDigits(Tail(s), acc * 10 + DigitVal(Head(s)))
  ELSE acc

\* Leading white space is skipped, one optional sign is taken, then the
\* longest run of digits is converted; no digits gives 0.  (Values that
\* overflow int are undefined for atoi and are beyond MaxLen digits.)
Atoi(s) ==
  LET t == SkipSpace(s) IN
  IF t # <<>> /\ Head(t) = "-" THEN 0 - ParseDigits(Tail(t), 0)
  ELSE IF t # <<>> /\ Head(t) = "+" THEN ParseDigits(Tail(t), 0)
  ELSE ParseDigits(t, 0)

\* envIntOr with the test of a set variable moved to its content: a value
\* without a number in front gives the default.
envIntOr_DefaultIfNotNumeric(value, defaultValue) ==
  IF value # <<>> /\ SkipSpace(value[1]) # <<>>
                  /\ Head(SkipSpace(value[1])) \in Digits
  THEN Atoi(value[1]) ELSE defaultValue

\* envIntOr: getenv returned NULL (<<>>) or a string (<<s>>).
envIntOr(value, defaultValue) ==
  IF value # <<>> THEN Atoi(value[1]) ELSE defaultValue

-----------------------------------------------------------------------------
(* Messages *)

Msg(t, w) == [type |-> t, wParam |-> w]

\* The values of TRACE under which the whole program is explored: level-1
\* tracing on, and all tracing off.
MainEnv == {<< <<"1">> >>, << <<"0">> >>}

\* All enumerated values of TRACE.
AllEnv == {<<>>} \cup {<<s>> : s \in StringsUpTo(MaxLen)}

CsInit == [scope |-> <<>>, acquired |-> <<>>, released |-> <<>>,
           rc |-> <<>>, size |-> <<>>, bmp |-> <<>>, stretchDst |-> <<>>, bltDst |-> <<>>,
           failed |-> FALSE]

InitRest ==
  /\ g_tracingLevel = 1
  /\ pc = "start"
  /\ exitCode = <<>>
  /\ queue = <<>>
  /\ stack = <<>>
  /\ windowExists = FALSE
  /\ registered = {}
  /\ invalid = FALSE
  /\ content = "none"
  /\ held = <<>>
  /\ cs = CsInit
  /\ psOpen = FALSE
  /\ fontSel = FALSE

Init == envTRACE \in MainEnv /\ InitRest

InitEnv == envTRACE \in AllEnv /\ InitRest

-----------------------------------------------------------------------------
(* wWinMain *)

\* Main_SetTracing with the assignment left out: the initial value stays.
Main_SetTracing_Skipped ==
  /\ pc = "start"
  /\ pc' = "createWindow"
  /\ UNCHANGED <<envTRACE, g_tracingLevel, exitCode>>
  /\ UNCHANGED winVars

\* g_tracingLevel = envIntOr("TRACE", 1);
Main_SetTracing ==
  /\ pc = "start"
  /\ g_tracingLevel' = envIntOr(envTRACE, DefaultTracingLevel)
  /\ pc' = "createWindow"
  /\ UNCHANGED <<envTRACE, exitCode>>
  /\ UNCHANGED winVars

\* TRACE with its condition taken for `greater than`.
TraceEnabled_Above(level) == g_tracingLevel > level

\* TRACE(level, msg) writes msg to std::wcerr under this condition.
TraceEnabled(level) == g_tracingLevel >= level

\* TRACE1(msg): the lines that reach std::wcerr.
TRACE1(msg) == IF TraceEnabled(1) THEN <<msg>> ELSE <<>>

\* The report of a failed checked OS call fn (CALL_BOOL_WINAPI,
\* CALL_HANDLE_WINAPI): a trace line of level 1, "API call failures".
ReportFailure(fn) == TRACE1(fn)

\* What the enclosing function does next when a checked OS call fails
\* (CALL_BOOL_WINAPI, CALL_HANDLE_WINAPI): the failure is reported and the
\* function is left at once, its remaining statements skipped.
OnFailure(normalNext, abortNext) == abortNext

\* WinMainReturn with the result of GetMessage returned.
WinMainReturn_GetMessageResult(r) == r

\* Value wWinMain returns when the loop has ended with GetMessage result r.
WinMainReturn(r) == 0

\* The switch of handleMessage: where the handling of message m starts.
EntryPc(m) ==
  CASE m.type = "WM_CREATE"  -> "seticon_small"
    [] m.type = "WM_DESTROY" -> "unreg_f5"
    [] m.type = "WM_PAINT"   -> "p_begin"
    [] m.type = "WM_HOTKEY"  -> "onHotKey"
    [] m.type = "WM_KEYDOWN" -> "onKeyDown"
    [] OTHER                 -> "default"

\* An invocation of handleMessage: its message, its position, the checked
\* OS call that failed in it (<<>> if none) and the level-1 lines it wrote.
Frame(m) == [msg |-> m, pc |-> EntryPc(m), failed |-> <<>>, err |-> <<>>]

Top == stack[Len(stack)]
SetTopPc(l) == [stack EXCEPT ![Len(stack)].pc = l]
Pop == SubSeq(stack, 1, Len(stack) - 1)
At(label) == stack # <<>> /\ Top.pc = label

\* The checked call fn has failed in the running invocation: the failure is
\* reported and the invocation goes on at nextPc.
FailTop(fn, nextPc) ==
  [stack EXCEPT ![Len(stack)] =
     [@ EXCEPT !.pc = nextPc, !.failed = <<fn>>, !.err = ReportFailure(fn)]]

\* The OS call that yields the handle res.
AcquireCall(res) ==
  CASE res = "hdcScreen"     -> "GetDC"
    [] res = "hdcWindow"     -> "GetDC"
    [] res = "hdcMemDC"      -> "CreateCompatibleDC"
    [] res = "hbmScreenshot" -> "CreateCompatibleBitmap"

\* mainWindow.createWindow(cw): the window comes to exist and WM_CREATE is
\* sent to it before the call returns.
Main_CreateWindow ==
  /\ pc = "createWindow"
  /\ pc' = "creating"
  /\ windowExists' = TRUE
  /\ stack' = <<Frame(Msg("WM_CREATE", 0))>>
  /\ UNCHANGED <<envTRACE, g_tracingLevel, exitCode, queue, registered,
                 invalid, content, held, cs, psOpen, fontSel>>

\* createWindow has returned; ShowWindow makes the window visible, which
\* leaves its client area to be painted.
Main_ShowWindow ==
  /\ pc = "creating"
  /\ stack = <<>>
  /\ pc' = "loop"
  /\ invalid' = TRUE
  /\ UNCHANGED <<envTRACE, g_tracingLevel, exitCode, queue, stack,
                 windowExists, registered, content, held, cs,
                 psOpen, fontSel>>

\* LoopMayRetrieve with retrieval not waiting for the dispatch to return.
LoopMayRetrieve_Always == TRUE

\* The loop calls GetMessage only after DispatchMessage has returned.
LoopMayRetrieve == stack = <<>>

\* TranslateMessage: a key-down message posts the character message.
TranslateMessage(m, q) ==
  IF m.type = "WM_KEYDOWN" THEN Append(q, Msg("WM_CHAR", m.wParam)) ELSE q

\* One turn of the loop: GetMessage retrieves the oldest posted message, or
\* WM_PAINT when nothing is posted and the window needs painting.  WM_QUIT
\* ends the loop; any other message is translated and dispatched to the
\* window procedure (a message for a destroyed window is dropped).
Main_GetMessage ==
  /\ pc = "loop"
  /\ LoopMayRetrieve
  /\ \/ /\ queue # <<>>
        /\ Head(queue).type = "WM_QUIT"
        /\ queue' = Tail(queue)
        /\ pc' = "done"
        /\ exitCode' = <<WinMainReturn(0)>>
        /\ UNCHANGED stack
     \/ /\ queue # <<>>
        /\ Head(queue).type # "WM_QUIT"
        /\ queue' = TranslateMessage(Head(queue), Tail(queue))
        /\ stack' = IF windowExists THEN Append(stack, Frame(Head(queue)))
                    ELSE stack
        /\ UNCHANGED <<pc, exitCode>>
     \/ /\ queue = <<>>
        /\ invalid
        /\ windowExists
        /\ stack' = Append(stack, Frame(Msg("WM_PAINT", 0)))
        /\ UNCHANGED <<pc, exitCode, queue>>
  /\ UNCHANGED <<envTRACE, g_tracingLevel, windowExists, registered, invalid,
                 content, held, cs, psOpen, fontSel>>

\* GetMessage reports an error (-1): the loop ends as well.
Main_GetMessageFails ==
  /\ pc = "loop"
  /\ LoopMayRetrieve
  /\ pc' = "done"
  /\ exitCode' = <<WinMainReturn(0 - 1)>>
  /\ UNCHANGED <<envTRACE, g_tracingLevel>>
  /\ UNCHANGED winVars

-----------------------------------------------------------------------------
(* The environment: the user and the system post messages *)

EnvMayPost == pc = "loop" /\ windowExists /\ Len(queue) < MaxQueue

Env_KeyDown ==
  /\ EnvMayPost
  /\ \E k \in KeyCodes : queue' = Append(queue, Msg("WM_KEYDOWN", k))
  /\ UNCHANGED <<envTRACE, g_tracingLevel, pc, exitCode, stack, windowExists,
                 registered, invalid, content, held, cs, psOpen,
                 fontSel>>

\* The system posts WM_HOTKEY for a registered hotkey, or for one of its own.
Env_HotKey ==
  /\ EnvMayPost
  /\ \E id \in registered \cup OtherHotKeyIds :
       queue' = Append(queue, Msg("WM_HOTKEY", id))
  /\ UNCHANGED <<envTRACE, g_tracingLevel, pc, exitCode, stack, windowExists,
                 registered, invalid, content, held, cs, psOpen,
                 fontSel>>

\* Part of the window is uncovered, or the window is resized.
Env_Invalidate ==
  /\ pc = "loop"
  /\ windowExists
  /\ ~invalid
  /\ invalid' = TRUE
  /\ UNCHANGED <<envTRACE, g_tracingLevel, pc, exitCode, queue, stack,
                 windowExists, registered, content, held, cs, psOpen, fontSel>>

-----------------------------------------------------------------------------
(* GTLMainWindow::handleMessage, case WM_CREATE *)

mainVars == <<envTRACE, g_tracingLevel, pc, exitCode>>

\* SendMessage(m_hwnd, WM_SETICON, ...): the window procedure is entered
\* again, on the same thread, and the send returns when it has returned.
H_SetIcon(label, next) ==
  /\ At(label)
  /\ stack' = Append(SetTopPc(next), Frame(Msg("WM_SETICON", 0)))
  /\ UNCHANGED mainVars
  /\ UNCHANGED <<queue, windowExists, registered, invalid, content,
                 held, cs, psOpen, fontSel>>

H_SetIconSmall == H_SetIcon("seticon_small", "seticon_big")
H_SetIconBig == H_SetIcon("seticon_big", "reg_f5")

\* CALL_BOOL_WINAPI(RegisterHotKey, m_hwnd, id, 0, vk); the call fails when
\* the key is already some other program's hotkey.  next = "ret" stands for
\* the `return 0` that follows.
H_Register(label, id, next) ==
  /\ At(label)
  /\ \E ok \in BOOLEAN :
       IF ok
       THEN /\ registered' = registered \cup {id}
            /\ stack' = IF next = "ret" THEN Pop ELSE SetTopPc(next)
       ELSE /\ registered' = registered
            /\ stack' = FailTop("RegisterHotKey", OnFailure(next, "failed"))
  /\ UNCHANGED mainVars
  /\ UNCHANGED <<queue, windowExists, invalid, content, held, cs,
                 psOpen, fontSel>>

H_RegisterF5 == H_Register("reg_f5", HOTKEY_ID_F5, "reg_up")
H_RegisterUp == H_Register("reg_up", HOTKEY_ID_UP, "ret")

-----------------------------------------------------------------------------
(* case WM_DESTROY *)

\* CALL_BOOL_WINAPI(UnregisterHotKey, m_hwnd, id): the call succeeds exactly
\* when the window has that hotkey registered.
H_Unregister(label, id, next) ==
  /\ At(label)
  /\ IF id \in registered
     THEN /\ registered' = registered \ {id}
          /\ stack' = SetTopPc(next)
     ELSE /\ registered' = registered
          /\ stack' = FailTop("UnregisterHotKey", OnFailure(next, "failed"))
  /\ UNCHANGED mainVars
  /\ UNCHANGED <<queue, windowExists, invalid, content, held, cs,
                 psOpen, fontSel>>

\* UnregisterOrder with the two calls exchanged.
UnregisterOrder_UpFirst == <<HOTKEY_ID_UP, HOTKEY_ID_F5>>

\* The ids WM_DESTROY unregisters, in the order of the calls.
UnregisterOrder == <<HOTKEY_ID_F5, HOTKEY_ID_UP>>

H_UnregisterF5 == H_Unregister("unreg_f5", UnregisterOrder[1], "unreg_up")
H_UnregisterUp == H_Unregister("unreg_up", UnregisterOrder[2], "postquit")

\* PostQuitMessage(0); return 0;
H_PostQuit ==
  /\ At("postquit")
  /\ queue' = Append(queue, Msg("WM_QUIT", 0))
  /\ stack' = Pop
  /\ UNCHANGED mainVars
  /\ UNCHANGED <<windowExists, registered, invalid, content, held, cs, psOpen, fontSel>>

-----------------------------------------------------------------------------
(* case WM_KEYDOWN and the default handling *)

\* IsQuitKey with the code of the lower-case letter.
IsQuitKey_LowerCase(wParam) == wParam = 113

\* IsQuitKey with every key taken for the quit key.
IsQuitKey_AnyKey(wParam) == TRUE

\* The keys onKeyDown handles.
IsQuitKey(wParam) == wParam = KEY_Q

\* onKeyDown: 'Q' posts WM_CLOSE and the message is handled (return 0);
\* any other key is not handled and goes to the base class.
H_KeyDown ==
  /\ At("onKeyDown")
  /\ IF IsQuitKey(Top.msg.wParam)
     THEN /\ queue' = Append(queue, Msg("WM_CLOSE", 0))
          /\ stack' = Pop
     ELSE /\ queue' = queue
          /\ stack' = SetTopPc("default")
  /\ UNCHANGED mainVars
  /\ UNCHANGED <<windowExists, registered, invalid, content, held, cs, psOpen, fontSel>>

\* The messages whose default handling destroys the window.
DefaultDestroys(m) == m.type = "WM_CLOSE"

\* BaseWindow::handleMessage: the system's default handling.  For WM_CLOSE
\* it destroys the window, which sends WM_DESTROY to the window procedure;
\* for the other messages of the model it changes nothing.
H_Default ==
  /\ At("default")
  /\ IF DefaultDestroys(Top.msg)
     THEN stack' = Append(SetTopPc("destroyed"), Frame(Msg("WM_DESTROY", 0)))
     ELSE stack' = Pop
  /\ UNCHANGED mainVars
  /\ UNCHANGED <<queue, windowExists, registered, invalid, content,
                 held, cs, psOpen, fontSel>>

\* Messages that survive the destruction of the window they were posted to.
ThreadMessages(q) == SelectSeq(q, LAMBDA m : m.type = "WM_QUIT")

\* WM_DESTROY has been handled: the window is gone, and with it its update
\* region and the messages posted to it.
H_Destroyed ==
  /\ At("destroyed")
  /\ windowExists' = FALSE
  /\ invalid' = FALSE
  /\ queue' = ThreadMessages(queue)
  /\ stack' = Pop
  /\ UNCHANGED mainVars
  /\ UNCHANGED <<registered, content, held, cs, psOpen, fontSel>>

-----------------------------------------------------------------------------
(* case WM_HOTKEY: onHotKey and captureScreen *)

\* StartsCapture with hotkeys ignored once the quit key has asked to close.
StartsCapture_UnlessClosing(id) ==
  /\ id = HOTKEY_ID_F5
  /\ \A i \in 1..Len(queue) : queue[i].type # "WM_CLOSE"

\* StartsCapture with both registered hotkeys starting a capture.
StartsCapture_BothHotKeys(id) == id \in {HOTKEY_ID_F5, HOTKEY_ID_UP}

\* onHotKey: only the F5 hotkey starts a capture.
StartsCapture(id) == id = HOTKEY_ID_F5

H_HotKey ==
  /\ At("onHotKey")
  /\ IF StartsCapture(Top.msg.wParam)
     THEN stack' = SetTopPc("cs_getScreen")
     ELSE stack' = Pop
  /\ UNCHANGED mainVars
  /\ UNCHANGED <<queue, windowExists, registered, invalid, content,
                 held, cs, psOpen, fontSel>>

\* ScopeAfter with the deleter of the bitmap forgotten.
ScopeAfter_NoBitmapDeleter(scope, res) ==
  IF res = "hbmScreenshot" THEN scope ELSE Append(scope, res)

\* The scope guards of captureScreen after the guard of res was declared.
ScopeAfter(scope, res) == Append(scope, res)

\* A checked call that yields a handle, followed by the declaration of the
\* guard that gives the handle back at scope exit.
CS_Acquire(label, res, next) ==
  /\ At(label)
  /\ \E ok \in BOOLEAN :
       IF ok
       THEN /\ held' = Append(held, res)
            /\ cs' = [cs EXCEPT !.acquired = Append(@, res),
                                !.scope = ScopeAfter(@, res)]
            /\ stack' = SetTopPc(next)
       ELSE /\ held' = held
            /\ cs' = [cs EXCEPT !.failed = TRUE]
            /\ stack' = FailTop(AcquireCall(res), OnFailure(next, "cs_unwind"))
  /\ UNCHANGED mainVars
  /\ UNCHANGED <<queue, windowExists, registered, invalid, content,
                 psOpen, fontSel>>

\* GET_AND_RELEASE_HDC(hdcScreen, NULL);
CS_GetScreenDC == CS_Acquire("cs_getScreen", "hdcScreen", "cs_getWindow")
\* GET_AND_RELEASE_HDC(hdcWindow, m_hwnd);
CS_GetWindowDC == CS_Acquire("cs_getWindow", "hdcWindow", "cs_createDC")
\* CALL_HANDLE_WINAPI(hdcMemDC, CreateCompatibleDC, hdcWindow); deleter
CS_CreateCompatibleDC == CS_Acquire("cs_createDC", "hdcMemDC", "cs_clientRect")

\* The sizes the client area may have when it is queried (the user may
\* resize the window between two captures).
ClientSizes == (0..MaxDim) \X (0..MaxDim)

\* GetClientRect gives the client area in client coordinates: left and top
\* are 0, right and bottom are the width and the height.
ClientRect(size) == [left |-> 0, top |-> 0,
                     right |-> size[1], bottom |-> size[2]]

\* CALL_BOOL_WINAPI(GetClientRect, m_hwnd, &rcClient);
CS_GetClientRect ==
  /\ At("cs_clientRect")
  /\ \E ok \in BOOLEAN, size \in ClientSizes :
       IF ok
       THEN /\ cs' = [cs EXCEPT !.rc = <<ClientRect(size)>>, !.size = <<size>>]
            /\ stack' = SetTopPc("cs_createBitmap")
       ELSE /\ cs' = [cs EXCEPT !.failed = TRUE]
            /\ stack' = FailTop("GetClientRect",
                                OnFailure("cs_createBitmap", "cs_unwind"))
  /\ UNCHANGED mainVars
  /\ UNCHANGED <<queue, windowExists, registered, invalid, content,
                 held, psOpen, fontSel>>

\* BitmapSize with width and height exchanged.
BitmapSize_Swapped(rc) == <<rc.bottom - rc.top, rc.right - rc.left>>

\* The size CreateCompatibleBitmap is called with.
BitmapSize(rc) == <<rc.right - rc.left, rc.bottom - rc.top>>

\* The destination size StretchBlt and BitBlt are called with.
BltSize(rc) == <<rc.right, rc.bottom>>

\* CALL_HANDLE_WINAPI(hbmScreenshot, CreateCompatibleBitmap, ...); deleter
CS_CreateBitmap ==
  /\ At("cs_createBitmap")
  /\ \E ok \in BOOLEAN :
       IF ok
       THEN /\ held' = Append(held, "hbmScreenshot")
            /\ cs' = [cs EXCEPT !.acquired = Append(@, "hbmScreenshot"),
                                !.scope = ScopeAfter(@, "hbmScreenshot"),
                                !.bmp = <<BitmapSize(cs.rc[1])>>]
            /\ stack' = SetTopPc("cs_select")
       ELSE /\ held' = held
            /\ cs' = [cs EXCEPT !.failed = TRUE]
            /\ stack' = FailTop("CreateCompatibleBitmap",
                                OnFailure("cs_select", "cs_unwind"))
  /\ UNCHANGED mainVars
  /\ UNCHANGED <<queue, windowExists, registered, invalid, content,
                 psOpen, fontSel>>

\* SELECT_RESTORE_OBJECT(hdcMemDC, hbmScreenshot): the selection is undone at
\* scope exit.
CS_SelectBitmap ==
  /\ At("cs_select")
  /\ held' = Append(held, "bitmapSelection")
  /\ cs' = [cs EXCEPT !.acquired = Append(@, "bitmapSelection"),
                      !.scope = ScopeAfter(@, "bitmapSelection")]
  /\ stack' = SetTopPc("cs_stretch")
  /\ UNCHANGED mainVars
  /\ UNCHANGED <<queue, windowExists, registered, invalid, content,
                 psOpen, fontSel>>

\* SetStretchBltMode (unchecked); CALL_BOOL_WINAPI(StretchBlt, ...);
CS_StretchBlt ==
  /\ At("cs_stretch")
  /\ \E ok \in BOOLEAN :
       IF ok
       THEN /\ cs' = [cs EXCEPT !.stretchDst = <<BltSize(cs.rc[1])>>]
            /\ stack' = SetTopPc("cs_bitblt")
       ELSE /\ cs' = [cs EXCEPT !.failed = TRUE]
            /\ stack' = FailTop("StretchBlt",
                                OnFailure("cs_bitblt", "cs_unwind"))
  /\ UNCHANGED mainVars
  /\ UNCHANGED <<queue, windowExists, registered, invalid, content,
                 held, psOpen, fontSel>>

\* CALL_BOOL_WINAPI(BitBlt, hdcWindow, ...): the screenshot is on the window.
CS_BitBlt ==
  /\ At("cs_bitblt")
  /\ \E ok \in BOOLEAN :
       IF ok
       THEN /\ cs' = [cs EXCEPT !.bltDst = <<BltSize(cs.rc[1])>>]
            /\ content' = "screenshot"
            /\ stack' = SetTopPc("cs_unwind")
       ELSE /\ cs' = [cs EXCEPT !.failed = TRUE]
            /\ content' = content
            /\ stack' = FailTop("BitBlt", OnFailure("cs_unwind", "cs_unwind"))
  /\ UNCHANGED mainVars
  /\ UNCHANGED <<queue, windowExists, registered, invalid, held,
                 psOpen, fontSel>>

\* Which guard of a scope is destroyed next when the scope is left: the
\* one declared last.
NextToDestroy(scope) == Len(scope)

\* ToDestroy with an early return that skips the cleanup.
ToDestroy_NoneAfterFailure(scope, failed) ==
  IF failed THEN <<>> ELSE scope

\* The guards that are destroyed when captureScreen is left, whether at its
\* end or early after a failed call: all that were declared.
ToDestroy(scope, failed) == scope

RemoveAt(q, i) == SubSeq(q, 1, i - 1) \o SubSeq(q, i + 1, Len(q))

\* The order in which the guards of a scope are destroyed.
RECURSIVE DestroyOrder(_)
DestroyOrder(scope) ==
  IF scope = <<>> THEN <<>>
  ELSE LET i == NextToDestroy(scope)
       IN <<scope[i]>> \o DestroyOrder(RemoveAt(scope, i))

\* The handles still held after those of `order` were given back.
RECURSIVE GiveBack(_, _)
GiveBack(h, order) ==
  IF order = <<>> THEN h
  ELSE GiveBack(SelectSeq(h, LAMBDA r : r # Head(order)), Tail(order))

\* Leaving captureScreen: every guard gives its handle back, then the
\* function has returned to onHotKey and handleMessage.
CS_Unwind ==
  /\ At("cs_unwind")
  /\ LET order == DestroyOrder(ToDestroy(cs.scope, cs.failed))
     IN /\ held' = GiveBack(held, order)
        /\ cs' = [cs EXCEPT !.scope = <<>>, !.released = order]
  /\ stack' = SetTopPc("hk_ret")
  /\ UNCHANGED mainVars
  /\ UNCHANGED <<queue, windowExists, registered, invalid, content,
                 psOpen, fontSel>>

\* return 0; (case WM_HOTKEY)
H_HotKeyReturn ==
  /\ At("hk_ret")
  /\ stack' = Pop
  /\ cs' = CsInit
  /\ UNCHANGED mainVars
  /\ UNCHANGED <<queue, windowExists, registered, invalid, content,
                 held, psOpen, fontSel>>

-----------------------------------------------------------------------------
(* case WM_PAINT: onPaint *)

\* CALL_HANDLE_WINAPI(hdc, BeginPaint, m_hwnd, &ps): validates the update
\* region.
P_BeginPaint ==
  /\ At("p_begin")
  /\ \E ok \in BOOLEAN :
       IF ok
       THEN /\ psOpen' = TRUE
            /\ invalid' = FALSE
            /\ stack' = SetTopPc("p_fill")
       ELSE /\ psOpen' = psOpen
            /\ invalid' = invalid
            /\ stack' = FailTop("BeginPaint", OnFailure("p_fill", "failed"))
  /\ UNCHANGED mainVars
  /\ UNCHANGED <<queue, windowExists, registered, content, held,
                 cs, fontSel>>

\* FillRect; GetStockObject; SELECT_RESTORE_OBJECT(hdc, hFont);
P_FillSelect ==
  /\ At("p_fill")
  /\ content' = "background"
  /\ fontSel' = TRUE
  /\ stack' = SetTopPc("p_text")
  /\ UNCHANGED mainVars
  /\ UNCHANGED <<queue, windowExists, registered, invalid, held,
                 cs, psOpen>>

\* CALL_BOOL_WINAPI(TextOut, hdc, 10, 10, L"Sample text", 11);
P_TextOut ==
  /\ At("p_text")
  /\ \E ok \in BOOLEAN :
       IF ok
       THEN /\ content' = "text"
            /\ stack' = SetTopPc("p_restore")
       ELSE /\ content' = content
            /\ stack' = FailTop("TextOut",
                                OnFailure("p_restore", "p_restore_abort"))
  /\ UNCHANGED mainVars
  /\ UNCHANGED <<queue, windowExists, registered, invalid, held,
                 cs, psOpen, fontSel>>

\* End of the inner scope: the previous font is selected back.  After a
\* failed TextOut the function is left here.
P_RestoreFont ==
  /\ \/ At("p_restore") /\ stack' = SetTopPc("p_end")
     \/ At("p_restore_abort") /\ stack' = Pop
  /\ fontSel' = FALSE
  /\ UNCHANGED mainVars
  /\ UNCHANGED <<queue, windowExists, registered, invalid, content,
                 held, cs, psOpen>>

\* EndPaint(m_hwnd, &ps); return 0;
P_EndPaint ==
  /\ At("p_end")
  /\ psOpen' = FALSE
  /\ stack' = Pop
  /\ UNCHANGED mainVars
  /\ UNCHANGED <<queue, windowExists, registered, invalid, content,
                 held, cs, fontSel>>

-----------------------------------------------------------------------------
(* After a failed checked call in handleMessage or onPaint *)

\* The function in which the call failed is left, and with it the
\* invocation of handleMessage.
H_FailedReturn ==
  /\ At("failed")
  /\ stack' = Pop
  /\ UNCHANGED mainVars
  /\ UNCHANGED <<queue, windowExists, registered, invalid, content,
                 held, cs, psOpen, fontSel>>

-----------------------------------------------------------------------------
(* Specifications *)

HandlerStep ==
  \/ H_SetIconSmall \/ H_SetIconBig \/ H_RegisterF5 \/ H_RegisterUp
  \/ H_UnregisterF5 \/ H_UnregisterUp \/ H_PostQuit
  \/ H_KeyDown \/ H_Default \/ H_Destroyed
  \/ H_HotKey \/ CS_GetScreenDC \/ CS_GetWindowDC \/ CS_CreateCompatibleDC
  \/ CS_GetClientRect \/ CS_CreateBitmap \/ CS_SelectBitmap \/ CS_StretchBlt
  \/ CS_BitBlt \/ CS_Unwind \/ H_HotKeyReturn
  \/ P_BeginPaint \/ P_FillSelect \/ P_TextOut \/ P_RestoreFont \/ P_EndPaint
  \/ H_FailedReturn

\* The steps of the program's one thread, which runs whenever it can.
ProgramStep ==
  \/ Main_SetTracing \/ Main_CreateWindow \/ Main_ShowWindow
  \/ Main_GetMessage \/ HandlerStep

EnvStep == Env_KeyDown \/ Env_HotKey \/ Env_Invalidate

Next == ProgramStep \/ Main_GetMessageFails \/ EnvStep

Spec == Init /\ [][Next]_vars

\* The thread is never suspended for ever: a step it can take is taken.
FairSpec == Spec /\ WF_vars(ProgramStep)

NextEnv == Main_SetTracing

SpecEnv == InitEnv /\ [][NextEnv]_vars

-----------------------------------------------------------------------------
(* Decimal numerals, defined by position and not by scanning *)

RECURSIVE Pow10(_)
Pow10(n) == IF n = 0 THEN 1 ELSE 10 * Pow10(n - 1)

RECURSIVE SumTo(_, _)
SumTo(f, n) == IF n = 0 THEN 0 ELSE f[n] + SumTo(f, n - 1)

AllDigits(s) == \A i \in 1..Len(s) : s[i] \in Digits

\* s is d1...dn, n >= 1: its value is the sum of the di * 10^(n-i).
DigitsValue(s) ==
  SumTo([i \in 1..Len(s) |-> DigitVal(s[i]) * Pow10(Len(s) - i)], Len(s))

\* An optional sign followed by at least one digit, and nothing else.
IsNumeral(s) ==
  /\ s # <<>>
  /\ IF s[1] \in {"-", "+"} THEN Len(s) >= 2 /\ AllDigits(Tail(s))
     ELSE AllDigits(s)

NumeralValue(s) ==
  IF s[1] = "-" THEN 0 - DigitsValue(Tail(s))
  ELSE IF s[1] = "+" THEN DigitsValue(Tail(s))
  ELSE DigitsValue(s)

AllSpaces(s) == \A i \in 1..Len(s) : s[i] = " "

\* s is white space, then the numeral n, then a rest that does not go on
\* with a digit.
HasLeadingNumeral(s, n) ==
  \E i \in 0..Len(s), j \in 0..Len(s) :
    /\ i < j
    /\ AllSpaces(SubSeq(s, 1, i))
    /\ n = SubSeq(s, i + 1, j)
    /\ IsNumeral(n)
    /\ (j < Len(s) => s[j + 1] \notin Digits)

LeadingNumerals(s) ==
  {SubSeq(s, i + 1, j) : i \in 0..Len(s), j \in 0..Len(s)} \ {<<>>}

\* s does not start, after white space, with a numeral.
NotNumeric(s) == \A n \in LeadingNumerals(s) : ~HasLeadingNumeral(s, n)

TracingIsSet == pc # "start"

-----------------------------------------------------------------------------
(* C1 *)

\* C1 as stated: once the tracing level is set, it is the integer TRACE
\* spells when TRACE is a numeral, and the default 1 when TRACE is not a
\* numeral or is not set.
C1_LevelIsIntegerOrDefault ==
  TracingIsSet =>
    IF envTRACE # <<>> /\ IsNumeral(envTRACE[1])
    THEN g_tracingLevel = NumeralValue(envTRACE[1])
    ELSE g_tracingLevel = 1

\* C1 as the code has it: once the tracing level is set, it is the default 1
\* only when TRACE is not set; when TRACE is set it is the value of the
\* numeral TRACE starts with (after white space, up to the first character
\* that is not a digit), and 0 when TRACE does not start with a numeral.
C1_LevelIsAtoiOrDefault ==
  TracingIsSet =>
    /\ envTRACE = <<>> => g_tracingLevel = 1
    /\ envTRACE # <<>> =>
         /\ \A n \in LeadingNumerals(envTRACE[1]) :
              HasLeadingNumeral(envTRACE[1], n) =>
                g_tracingLevel = NumeralValue(n)
         /\ NotNumeric(envTRACE[1]) => g_tracingLevel = 0

\* TRACE is set to a value that is no numeral, and the level became 0.
C1_Witness ==
  /\ TracingIsSet
  /\ envTRACE = << <<"a">> >>
  /\ g_tracingLevel = 0

-----------------------------------------------------------------------------
(* C2 *)

\* handleMessage is handling a key-down message for the quit key.
QuitKeyDelivered ==
  stack # <<>> /\ Top.msg = Msg("WM_KEYDOWN", KEY_Q)

ExitedWithZero == pc = "done" /\ exitCode = <<0>>

\* C2: whenever a key-down message for the quit key is delivered to the
\* window, the window is eventually closed, the message loop eventually
\* ends and the process exits with code zero.  (Where this fails the thread
\* is blocked in GetMessage for good: the window is destroyed, nothing is
\* posted to it any more, and PostQuitMessage was never called.)
C2_QuitKeyExits == QuitKeyDelivered ~> ExitedWithZero

-----------------------------------------------------------------------------
(* C3 *)

CapturePcs == {"cs_getScreen", "cs_getWindow", "cs_createDC", "cs_clientRect",
               "cs_createBitmap", "cs_select", "cs_stretch", "cs_bitblt",
               "cs_unwind"}

\* captureScreen has been entered and has not returned.
InCapture == \E i \in 1..Len(stack) : stack[i].pc \in CapturePcs

\* captureScreen has returned to its caller, which has not returned yet.
CaptureReturned == At("hk_ret")

CaptureHandles == {"hdcScreen", "hdcWindow", "hdcMemDC", "hbmScreenshot"}

Count(q, x) == Cardinality({i \in 1..Len(q) : q[i] = x})

\* C3: when captureScreen returns, each of the screen DC, window DC, memory
\* DC and bitmap that it acquired has been released exactly once, a capture
\* in which no call failed has acquired and released all four, and outside
\* of captureScreen no graphics handle is held, however many captures ran.
C3_CaptureReleasesAll ==
  /\ ~InCapture => held = <<>>
  /\ CaptureReturned =>
       /\ \A r \in CaptureHandles :
            /\ Count(cs.acquired, r) <= 1
            /\ Count(cs.released, r) = Count(cs.acquired, r)
       /\ ~cs.failed => \A r \in CaptureHandles : Count(cs.acquired, r) = 1

\* A capture without failure has returned, after an earlier capture had
\* already put a screenshot on the window: four handles acquired, four
\* released, none held.
C3_Witness ==
  /\ CaptureReturned
  /\ ~cs.failed
  /\ content = "screenshot"
  /\ \A r \in CaptureHandles : Count(cs.released, r) = 1
  /\ held = <<>>

-----------------------------------------------------------------------------
(* C4 *)

\* The window was created and has been destroyed.
WindowDestroyed == ~windowExists /\ pc \in {"loop", "done"}

DestroyHandlerLeft ==
  /\ stack # <<>>
  /\ Top.msg.type = "WM_DESTROY"
  /\ Len(stack') < Len(stack)

-----------------------------------------------------------------------------
(* C5 *)

\* C5: in every capture the bitmap is created with exactly the width and
\* height of the client area that GetClientRect reported in that capture,
\* and StretchBlt into the bitmap and BitBlt onto the window are given the
\* same width and height.
C5_BitmapMatchesClientRect ==
  /\ cs.bmp # <<>> => cs.bmp[1] = cs.size[1]
  /\ cs.stretchDst # <<>> => cs.stretchDst[1] = cs.bmp[1]
  /\ cs.bltDst # <<>> => cs.bltDst[1] = cs.bmp[1]

\* A capture of a client area one pixel wide and of height zero has drawn.
C5_Witness ==
  /\ cs.size = << <<1, 0>> >>
  /\ cs.bmp = << <<1, 0>> >>
  /\ cs.bltDst = << <<1, 0>> >>

-----------------------------------------------------------------------------
(* C6 *)

HandledTypes == {"WM_CREATE", "WM_DESTROY", "WM_PAINT", "WM_HOTKEY"}

\* A key-down message for another key than the quit key, or a message of a
\* type handleMessage has no case for.
Unhandled(m) ==
  IF m.type = "WM_KEYDOWN" THEN m.wParam # KEY_Q
  ELSE m.type \notin HandledTypes

CloseRequests == SelectSeq(queue, LAMBDA m : m.type = "WM_CLOSE")

\* What the claim says stays as it was: the window and the requests to close
\* it, the hotkey registrations, the graphics resources, the window content.
Observed == <<windowExists, CloseRequests, registered, held, cs, psOpen,
              fontSel, content>>

\* C6 as stated: while such a message is being handled nothing of this
\* changes.
C6_UnhandledChangesNothing ==
  [][(\E i \in 1..Len(stack) : Unhandled(stack[i].msg))
       => UNCHANGED Observed]_vars

\* C6 as the code has it: the same, for every such message except WM_CLOSE,
\* which goes to the default handling like the others and there destroys the
\* window (WM_DESTROY is handled, the hotkeys are unregistered).
C6_UnhandledExceptCloseChangesNothing ==
  [][(\E i \in 1..Len(stack) : Unhandled(stack[i].msg))
       /\ (\A i \in 1..Len(stack) : stack[i].msg.type # "WM_CLOSE")
       => UNCHANGED Observed]_vars

\* A key-down message for another key has reached the default handling while
\* both hotkeys are registered and a screenshot is on the window.
C6_Witness ==
  /\ At("default")
  /\ Top.msg = Msg("WM_KEYDOWN", 65)
  /\ registered = {HOTKEY_ID_F5, HOTKEY_ID_UP}
  /\ content = "screenshot"

-----------------------------------------------------------------------------
(* C7 *)

\* C7: handling a hotkey message starts a capture if and only if its id is
\* HOTKEY_ID_F5; captureScreen runs, and graphics handles are held, only
\* inside the handling of a hotkey message with that id.
C7_OnlyF5Captures ==
  /\ [](/\ \A i \in 1..Len(stack) :
             stack[i].pc \in CapturePcs \cup {"hk_ret"}
               => stack[i].msg = Msg("WM_HOTKEY", HOTKEY_ID_F5)
        /\ held # <<>> => InCapture)
  /\ [][At("onHotKey") /\ stack' # stack
          => (Top.msg.wParam = HOTKEY_ID_F5 <=> InCapture')]_vars

\* The F5 hotkey is being handled and the capture holds the screen DC, while
\* a message of the other hotkey waits in the queue.
C7_Witness ==
  /\ At("cs_getWindow")
  /\ Top.msg = Msg("WM_HOTKEY", HOTKEY_ID_F5)
  /\ held = <<"hdcScreen">>
  /\ queue = <<Msg("WM_HOTKEY", HOTKEY_ID_UP)>>

-----------------------------------------------------------------------------
(* C8 *)

\* C8: whenever wWinMain has returned, it has returned zero.
C8_ExitCodeZero ==
  /\ pc = "done" => exitCode = <<0>>
  /\ exitCode # <<>> => pc = "done"

\* The loop has ended on the quit message after the window was destroyed.
C8_Witness ==
  /\ pc = "done"
  /\ ~windowExists
  /\ queue = <<>>
  /\ exitCode = <<0>>

-----------------------------------------------------------------------------
(* C9 *)

Reverse(q) == [i \in 1..Len(q) |-> q[Len(q) + 1 - i]]

\* C9: whenever captureScreen returns, at its end or early after a failed
\* call, everything it acquired (screen DC, window DC, memory DC, bitmap,
\* selection of the bitmap) was released, in the reverse of the order of
\* acquisition.
C9_ReleasedInReverse ==
  CaptureReturned => cs.released = Reverse(cs.acquired)

\* captureScreen has returned after StretchBlt failed: all five were
\* acquired and have been released.
C9_Witness ==
  /\ CaptureReturned
  /\ cs.failed
  /\ cs.stretchDst = <<>>
  /\ cs.released = <<"bitmapSelection", "hbmScreenshot", "hdcMemDC",
                     "hdcWindow", "hdcScreen">>

-----------------------------------------------------------------------------
(* C10 *)

\* C10 as stated: no invocation of handleMessage begins while another is in
\* progress.
C10_NoNestedInvocation == Len(stack) <= 1

\* C10 as the code has it: a message is retrieved and dispatched only while
\* no invocation of handleMessage is in progress, so that a capture is over
\* before the next message is dispatched; an invocation begins inside
\* another only when the running handler itself sends a message to the
\* window: WM_SETICON from the WM_CREATE handler, WM_DESTROY from the default
\* handling of WM_CLOSE.
C10_OneDispatchAtATime ==
  [][Len(stack') > Len(stack) =>
       \/ stack = <<>>
       \/ /\ stack # <<>>
          /\ Len(stack') = Len(stack) + 1
          /\ \/ /\ Top.msg.type = "WM_CREATE"
                /\ Top'.msg.type = "WM_SETICON"
             \/ /\ Top.msg.type = "WM_CLOSE"
                /\ Top'.msg.type = "WM_DESTROY"]_vars

\* WM_SETICON is being handled inside the handling of WM_CREATE.
C10_Witness ==
  /\ Len(stack) = 2
  /\ stack[1].msg.type = "WM_CREATE"
  /\ stack[2].msg.type = "WM_SETICON"

-----------------------------------------------------------------------------
(* C11 *)

\* Where an invocation is after a checked call failed in it: about to
\* return, or leaving captureScreen or the scope of onPaint on its way out.
AbortPcs == {"failed", "cs_unwind", "hk_ret", "p_restore_abort"}

\* What the steps that a failed call cuts off would change: hotkey
\* registrations, posted messages, the window and its content, paint state.
RemainingEffects == <<registered, queue, windowExists, content, psOpen>>

\* What the calls of captureScreen leave in its locals.
CaptureCalls == <<cs.acquired, cs.rc, cs.bmp, cs.stretchDst, cs.bltDst>>

\* C11: when a checked OS call fails in an event handler, the failure is
\* reported by one trace line of level 1 (written exactly when the tracing
\* level is at least 1) and by nothing else, the call is not made again, and
\* the handler does nothing more than leave: none of its remaining steps is
\* executed (after a failed first RegisterHotKey no second registration,
\* after a failed first UnregisterHotKey no PostQuitMessage).
C11_FailureReportedAndHandlerLeft ==
  /\ [](\A i \in 1..Len(stack) :
          /\ stack[i].failed = <<>> => stack[i].err = <<>>
          /\ stack[i].failed # <<>> =>
               /\ stack[i].pc \in AbortPcs
               /\ stack[i].err =
                    (IF g_tracingLevel >= 1 THEN stack[i].failed ELSE <<>>))
  /\ [][stack # <<>> /\ Top.failed # <<>> /\ stack' # stack =>
          /\ UNCHANGED RemainingEffects
          /\ Len(held') <= Len(held)
          /\ \/ stack' = Pop
             \/ /\ Len(stack') = Len(stack)
                /\ Top'.failed = Top.failed
                /\ Top'.err = Top.err
                /\ Top.pc = "cs_unwind"
                /\ Top'.pc = "hk_ret"
                /\ UNCHANGED CaptureCalls]_vars

\* The first UnregisterHotKey of the WM_DESTROY handler has failed with
\* level-1 tracing on: the line is written, nothing is unregistered and no
\* quit message is posted.
C11_Witness ==
  /\ At("failed")
  /\ Top.msg.type = "WM_DESTROY"
  /\ Top.failed = <<"UnregisterHotKey">>
  /\ Top.err = <<"UnregisterHotKey">>
  /\ g_tracingLevel = 1
  /\ registered = {}
  /\ queue = <<>>

-----------------------------------------------------------------------------
(* C12 *)

PaintInProgress == \E i \in 1..Len(stack) : stack[i].msg.type = "WM_PAINT"

\* C12: whenever onPaint has returned, on whatever path, the font it
\* selected into the paint DC is selected out again and its BeginPaint has
\* been matched by EndPaint.
C12_PaintStateRestored == ~PaintInProgress => ~fontSel /\ ~psOpen

-----------------------------------------------------------------------------
(* C13 *)

KeyDownStep == At("onKeyDown") /\ stack' # stack

\* C13: handling a key-down message for the quit key posts one WM_CLOSE and
\* returns from handleMessage at once (the `return 0`), never reaching the
\* default handling; handling a key-down message for any other key posts
\* nothing and passes the message to the default handling of the base class.
C13_QuitKeyConsumed ==
  [][KeyDownStep =>
       IF Top.msg.wParam = KEY_Q
       THEN /\ queue' = Append(queue, Msg("WM_CLOSE", 0))
            /\ stack' = Pop
       ELSE /\ queue' = queue
            /\ stack' = SetTopPc("default")]_vars

\* The quit key has been handled: its character message and the close
\* request wait in the queue, and handleMessage has returned.
C13_Witness ==
  /\ stack = <<>>
  /\ windowExists
  /\ queue = <<Msg("WM_CHAR", KEY_Q), Msg("WM_CLOSE", 0)>>

-----------------------------------------------------------------------------
(* C14 *)

\* C14: the tracing level is written once, by the first step of wWinMain,
\* before the window exists and before any message is handled; from then on
\* no step changes it, and it is the value TRACE (a numeral in every run of
\* Spec) gives it.
C14_TracingLevelSetOnce ==
  /\ [](~TracingIsSet => ~windowExists /\ stack = <<>> /\ queue = <<>>)
  /\ [](TracingIsSet =>
          g_tracingLevel = (IF envTRACE = <<>> THEN 1
                            ELSE NumeralValue(envTRACE[1])))
  /\ [][g_tracingLevel' # g_tracingLevel
          => ~TracingIsSet /\ TracingIsSet']_vars

\* The process has run to its end with TRACE=0: the level is the 0 written
\* at startup, not the initial 1.
C14_Witness ==
  /\ pc = "done"
  /\ ~windowExists
  /\ envTRACE = << <<"0">> >>
  /\ g_tracingLevel = 0
  /\ exitCode = <<0>>

-----------------------------------------------------------------------------
(* C15 *)

\* The WM_DESTROY handler has run: the default handling of WM_CLOSE is about
\* to finish the destruction, or the window is gone.
DestroyHandled == At("destroyed") \/ WindowDestroyed

\* A message is taken from the queue and dispatched.
DispatchFromQueue == stack = <<>> /\ stack' # <<>> /\ queue # <<>>

\* C15: handling the quit key only posts WM_CLOSE: the window stays and the
\* hotkeys stay registered; messages are dispatched oldest first, so those
\* queued before the close request are handled before it, and a capture
\* hotkey among them starts a capture although a close request is pending;
\* once the WM_DESTROY handler has run, this stays so and no capture is in
\* progress or started any more.
C15_CloseIsDeferred ==
  /\ [](DestroyHandled => ~InCapture)
  /\ [][/\ DestroyHandled => DestroyHandled'
        /\ KeyDownStep =>
             /\ UNCHANGED <<windowExists, registered, held, content>>
             /\ windowExists
        /\ DispatchFromQueue => stack' = <<Frame(Head(queue))>>
        /\ (At("onHotKey") /\ Top.msg.wParam = HOTKEY_ID_F5 /\ stack' # stack)
             => InCapture']_vars

\* A capture is in progress while the close request of the quit key waits
\* in the queue; both hotkeys are still registered.
C15_Witness ==
  /\ InCapture
  /\ CloseRequests # <<>>
  /\ windowExists
  /\ registered = {HOTKEY_ID_F5, HOTKEY_ID_UP}

====
